---------------------------- MODULE Spec2Model ----------------------------
(***************************************************************************)
(* Conway's Game of Life on a toroidal grid (src/src/lib.rs).              *)
(*                                                                         *)
(* A World holds width, height and the Vec<Position> of live cells.  The   *)
(* order of that Vec is partly the iteration order of a HashSet (births),  *)
(* which is unspecified, so the Vec is modelled up to permutation: as a    *)
(* bag of positions.  Multiplicities are kept: the code never deduplicates *)
(* the Vec.  Positions are i64 pairs; the model draws them from a bounded  *)
(* range far from the i64 limits, where x - 1 and x + 1 do not overflow.   *)
(***************************************************************************)
EXTENDS Integers, FiniteSets, Sequences, Bags, TLC

VARIABLES
    status,   \* "none": nothing constructed yet, "ok": a World exists, "panicked": panic!() ran
    width,    \* World.width
    height,   \* World.height
    alive,    \* World.alive, a bag of positions
    initial,  \* history: the World as the constructor returned it
    ticks,    \* history: number of tick() calls since construction
    call,     \* the last operation called, with its arguments
    ret       \* what that operation returned

vars == <<status, width, height, alive, initial, ticks, call, ret>>

(***************************************************************************)
(* Bounds of the model.                                                    *)
(***************************************************************************)
MaxTicks == 3      \* tick() calls followed per World
MaxDim == 3        \* largest width/height of a World built from arbitrary cells
Margin == 1        \* how far outside the grid an arbitrary coordinate may lie
MaxInit == 4       \* most cells in an arbitrary initial Vec
CanonDim == 4      \* largest width/height of a World built from in-range cells
MaxCanon == 3      \* most cells in such a World's initial Vec
BlockDim == 5      \* largest width/height of a World seeded with a 2x2 block
PatternSlack == 2  \* pattern constructors are called with min-1 .. min+PatternSlack
QueryDim == 5      \* largest width/height of a World the private queries run on
QueryMargin == 2   \* how far outside 1..QueryDim a queried coordinate may lie

(***************************************************************************)
(* Position and World values.                                              *)
(***************************************************************************)
Position(x, y) == [x |-> x, y |-> y]

World(w, h, a) == [width |-> w, height |-> h, alive |-> a]

NoWorld == World(0, 0, EmptyBag)

self == World(width, height, alive)

\* i64::rem_euclid for a positive divisor: the remainder in 0..n-1.
rem_euclid(a, n) == a % n

\* The truncating remainder (Rust's %), which keeps the sign of a.
rem_trunc(a, n) == IF a >= 0 THEN a % n ELSE -((-a) % n)

is_alive(w, position) == BagIn(position, w.alive)

is_empty(w, position) == ~is_alive(w, position)

wrap_trunc(w, position) ==
    Position(rem_trunc(position.x - 1, w.width) + 1,
             rem_trunc(position.y - 1, w.height) + 1)

wrap(w, position) ==
    LET x == rem_euclid(position.x - 1, w.width) + 1
        y == rem_euclid(position.y - 1, w.height) + 1
    IN  Position(x, y)

neighboring_cells(position) ==
    LET x == position.x
        y == position.y
    IN  << Position(x - 1, y - 1), Position(x, y - 1), Position(x + 1, y - 1),
           Position(x - 1, y),                         Position(x + 1, y),
           Position(x - 1, y + 1), Position(x, y + 1), Position(x + 1, y + 1) >>

neighbors_dup(w, position) ==
    LET cells == neighboring_cells(position)
    IN  [i \in 1..8 |-> wrap(w, IF i = 3 THEN cells[8] ELSE cells[i])]

neighbors(w, position) ==
    LET cells == neighboring_cells(position)
    IN  [i \in 1..Len(cells) |-> wrap(w, cells[i])]

live_neighbors_nowrap(w, position) ==
    LET ns == neighboring_cells(position)
    IN  Cardinality({i \in 1..Len(ns) : is_alive(w, ns[i])})

live_neighbors(w, position) ==
    LET ns == neighbors(w, position)
    IN  Cardinality({i \in 1..Len(ns) : is_alive(w, ns[i])})

survivors_three(w) ==
    LET kept == {pos \in BagToSet(w.alive) : live_neighbors(w, pos) = 3}
    IN  [pos \in kept |-> CopiesIn(pos, w.alive)]

\* iter().filter_map(..) visits every element of the Vec: each copy of a kept
\* position is kept.
survivors(w) ==
    LET kept == {pos \in BagToSet(w.alive) :
                    LET count == live_neighbors(w, pos)
                    IN  count = 2 \/ count = 3}
    IN  [pos \in kept |-> CopiesIn(pos, w.alive)]

births_two(w) ==
    LET potential_births ==
            {n \in UNION {{neighbors(w, pos)[i] : i \in 1..8} : pos \in BagToSet(w.alive)} :
                is_empty(w, n)}
    IN  SetToBag({pos \in potential_births : live_neighbors(w, pos) >= 2})

births_nowrap(w) ==
    LET potential_births ==
            {n \in UNION {{neighboring_cells(pos)[i] : i \in 1..8} : pos \in BagToSet(w.alive)} :
                is_empty(w, n)}
    IN  SetToBag({pos \in potential_births : live_neighbors(w, pos) = 3})

\* potential_births is a HashSet, so every birth is pushed once.
births(w) ==
    LET potential_births ==
            {n \in UNION {{neighbors(w, pos)[i] : i \in 1..8} : pos \in BagToSet(w.alive)} :
                is_empty(w, n)}
    IN  SetToBag({pos \in potential_births : live_neighbors(w, pos) = 3})

next_generation(w) ==
    LET new_alive == survivors(w) (+) births(w)
    IN  World(w.width, w.height, new_alive)

alive_positions(w) == w.alive

(***************************************************************************)
(* Seed patterns.                                                          *)
(***************************************************************************)
GliderMin == 5

PulsarMin == 15

glider ==
    SetToBag({ Position(4, 2), Position(2, 3), Position(4, 3),
               Position(3, 4), Position(4, 4) })

pulsar ==
    SetToBag({ Position(7, 4),  Position(8, 4),  Position(9, 4),
               Position(13, 4), Position(14, 4), Position(15, 4),
               Position(5, 6),  Position(10, 6), Position(12, 6), Position(17, 6),
               Position(5, 7),  Position(10, 7), Position(12, 7), Position(17, 7),
               Position(5, 8),  Position(10, 8), Position(12, 8), Position(17, 8),
               Position(7, 10),  Position(8, 10),  Position(9, 10),
               Position(13, 10), Position(14, 10), Position(15, 10) })

(***************************************************************************)
(* Operations.  Every operation records itself in call, with its arguments *)
(* and the World it was called on, and its result in ret.                  *)
(***************************************************************************)
Init ==
    /\ status = "none"
    /\ width = 0
    /\ height = 0
    /\ alive = EmptyBag
    /\ initial = NoWorld
    /\ ticks = 0
    /\ call = [op |-> "none"]
    /\ ret = "unit"

\* World { width, height, alive } leaving a constructor.
Construct(w, h, a) ==
    /\ status' = "ok"
    /\ width' = w
    /\ height' = h
    /\ alive' = a
    /\ initial' = World(w, h, a)
    /\ ticks' = 0
    /\ ret' = World(w, h, a)

\* panic!(): the call never returns and nothing is constructed.
Panic ==
    /\ status' = "panicked"
    /\ ret' = "panic"
    /\ UNCHANGED <<width, height, alive, initial, ticks>>

New(w, h, a) ==
    /\ call' = [op |-> "new", width |-> w, height |-> h]
    /\ Construct(w, h, a)

GliderPatternBoth(w, h) ==
    /\ call' = [op |-> "glider_pattern", width |-> w, height |-> h]
    /\ IF w < GliderMin /\ h < GliderMin
       THEN Panic
       ELSE Construct(w, h, glider)

GliderPattern(w, h) ==
    /\ call' = [op |-> "glider_pattern", width |-> w, height |-> h]
    /\ IF w < GliderMin \/ h < GliderMin
       THEN Panic
       ELSE Construct(w, h, glider)

PulsarPattern(w, h) ==
    /\ call' = [op |-> "pulsar_pattern", width |-> w, height |-> h]
    /\ IF w < PulsarMin \/ h < PulsarMin
       THEN Panic
       ELSE Construct(w, h, pulsar)

TickSurvivors ==
    /\ status = "ok"
    /\ ticks < MaxTicks
    /\ alive' = survivors(self)
    /\ ticks' = ticks + 1
    /\ call' = [op |-> "tick", world |-> self]
    /\ ret' = "unit"
    /\ UNCHANGED <<status, width, height, initial>>

Tick ==
    /\ status = "ok"
    /\ ticks < MaxTicks
    /\ LET next == next_generation(self)
       IN  alive' = next.alive
    /\ ticks' = ticks + 1
    /\ call' = [op |-> "tick", world |-> self]
    /\ ret' = "unit"
    /\ UNCHANGED <<status, width, height, initial>>

NextGeneration ==
    /\ status = "ok"
    /\ call' = [op |-> "next_generation", world |-> self]
    /\ ret' = next_generation(self)
    /\ UNCHANGED <<status, width, height, alive, initial, ticks>>

AlivePositions ==
    /\ status = "ok"
    /\ call' = [op |-> "alive_positions", world |-> self]
    /\ ret' = alive_positions(self)
    /\ UNCHANGED <<status, width, height, alive, initial, ticks>>

\* The private helpers, called on the current World with a position.
Wrap(p) ==
    /\ status = "ok"
    /\ call' = [op |-> "wrap", position |-> p]
    /\ ret' = wrap(self, p)
    /\ UNCHANGED <<status, width, height, alive, initial, ticks>>

Neighbors(p) ==
    /\ status = "ok"
    /\ call' = [op |-> "neighbors", position |-> p]
    /\ ret' = neighbors(self, p)
    /\ UNCHANGED <<status, width, height, alive, initial, ticks>>

LiveNeighbors(p) ==
    /\ status = "ok"
    /\ call' = [op |-> "live_neighbors", position |-> p]
    /\ ret' = live_neighbors(self, p)
    /\ UNCHANGED <<status, width, height, alive, initial, ticks>>

(***************************************************************************)
(* Inputs.                                                                 *)
(***************************************************************************)
Square(lo, hi) == {Position(x, y) : x \in lo..hi, y \in lo..hi}

Grid(w, h) == {Position(x, y) : x \in 1..w, y \in 1..h}

\* Every Vec of at most n positions of P, up to order.
RECURSIVE BagsUpTo(_, _)
BagsUpTo(P, n) ==
    IF n = 0 THEN {EmptyBag}
    ELSE LET B == BagsUpTo(P, n - 1)
         IN  B \cup {b (+) SetToBag({p}) : b \in B, p \in P}

\* Every set of at most n positions of P.
RECURSIVE SetsUpTo(_, _)
SetsUpTo(P, n) ==
    IF n = 0 THEN {{}}
    ELSE LET T == SetsUpTo(P, n - 1)
         IN  T \cup {S \cup {p} : S \in T, p \in P}

\* The representative of v in 1..n.
Canon(v, n) == CHOOSE c \in 1..n : (c - v) % n = 0

Block(w, h, x, y) ==
    {Position(Canon(x + dx, w), Canon(y + dy, h)) : dx \in 0..1, dy \in 0..1}

TestWorld == World(5, 5, SetToBag({Position(1, 1), Position(1, 2), Position(2, 1)}))

\* A World is constructed once: the constructors are offered before any exists.
NewAny ==
    /\ status = "none"
    /\ \E w \in 1..MaxDim, h \in 1..MaxDim :
           \E a \in BagsUpTo({Position(x, y) : x \in (1 - Margin)..(w + Margin),
                                               y \in (1 - Margin)..(h + Margin)}, MaxInit) :
               New(w, h, a)

NewCanon ==
    /\ status = "none"
    /\ \/ New(TestWorld.width, TestWorld.height, TestWorld.alive)
       \/ \E w \in 1..CanonDim, h \in 1..CanonDim :
              \E S \in SetsUpTo(Grid(w, h), MaxCanon) : New(w, h, SetToBag(S))

NewBlock ==
    /\ status = "none"
    /\ \E w \in 4..BlockDim, h \in 4..BlockDim :
           \E x \in 1..w, y \in 1..h : New(w, h, SetToBag(Block(w, h, x, y)))

NewGlider ==
    /\ status = "none"
    /\ \E w \in (GliderMin - 1)..(GliderMin + PatternSlack),
          h \in (GliderMin - 1)..(GliderMin + PatternSlack) : GliderPattern(w, h)

NewPulsar ==
    /\ status = "none"
    /\ \E w \in (PulsarMin - 1)..(PulsarMin + PatternSlack),
          h \in (PulsarMin - 1)..(PulsarMin + PatternSlack) : PulsarPattern(w, h)

\* The test World, and on every grid up to two cells of 0..2 x 0..2, stored as
\* given (a coordinate 0 is out of range, one above width or height too).
NewQuery ==
    /\ status = "none"
    /\ \/ New(TestWorld.width, TestWorld.height, TestWorld.alive)
       \/ \E w \in 1..QueryDim, h \in 1..QueryDim :
              \E a \in BagsUpTo(Square(0, 2), 2) : New(w, h, a)

QueryPositions == Square(1 - QueryMargin, QueryDim + QueryMargin)

(***************************************************************************)
(* Specifications.                                                         *)
(***************************************************************************)
\* Worlds of distinct in-range cells.
Next ==
    \/ NewCanon
    \/ Tick
    \/ NextGeneration

Spec == Init /\ [][Next]_vars

\* Worlds built from any Vec: repeated and out-of-range cells too.
NextAny ==
    \/ NewAny
    \/ NewCanon
    \/ Tick
    \/ AlivePositions

SpecAny == Init /\ [][NextAny]_vars

\* Worlds seeded with a 2x2 block.
NextBlock ==
    \/ NewBlock
    \/ Tick
    \/ NextGeneration
    \/ AlivePositions

SpecBlock == Init /\ [][NextBlock]_vars

\* Worlds seeded by the pattern constructors.
NextPattern ==
    \/ NewGlider
    \/ NewPulsar
    \/ Tick
    \/ AlivePositions

SpecPattern == Init /\ [][NextPattern]_vars

\* The helpers are pure: one call on each World, with each position, shows all
\* they do.
NextQuery ==
    \/ NewQuery
    \/ call.op = "new" /\ \E p \in QueryPositions : Wrap(p)
    \/ call.op = "new" /\ \E p \in QueryPositions : Neighbors(p)
    \/ call.op = "new" /\ \E p \in QueryPositions : LiveNeighbors(p)

SpecQuery == Init /\ [][NextQuery]_vars

(***************************************************************************)
(* Vocabulary of the properties, defined without the operators above.      *)
(***************************************************************************)
Cells(b) == BagToSet(b)

InRange(w, c) == c.x \in 1..w.width /\ c.y \in 1..w.height

NoRepeats(b) == \A c \in Cells(b) : CopiesIn(c, b) = 1

\* Distinct live cells, all in [1,width]x[1,height].
Canonical(w) == NoRepeats(w.alive) /\ \A c \in Cells(w.alive) : InRange(w, c)

Offsets == ({-1, 0, 1} \X {-1, 0, 1}) \ {<<0, 0>>}

\* The live cells among the 8 Moore neighbours of c on the torus, each offset
\* counted on its own.
NeighbourCount(w, c) ==
    Cardinality({d \in Offsets :
        Position(Canon(c.x + d[1], w.width), Canon(c.y + d[2], w.height)) \in Cells(w.alive)})

LifeRule(w) ==
    {c \in Grid(w.width, w.height) :
        \/ c \in Cells(w.alive) /\ NeighbourCount(w, c) \in {2, 3}
        \/ c \notin Cells(w.alive) /\ NeighbourCount(w, c) = 3}

RECURSIVE Generations(_, _)
Generations(w, n) == IF n = 0 THEN w ELSE next_generation(Generations(w, n - 1))

IsBlock(w) ==
    \E x \in 1..w.width, y \in 1..w.height :
        w.alive = SetToBag(Block(w.width, w.height, x, y))

(***************************************************************************)
(* C1.  alive_positions() never holds a coordinate twice, whatever Vec the *)
(* World was built from and however many ticks ran.  The code keeps the    *)
(* Vec it is given, repeats included, and survivors() keeps every copy.    *)
(***************************************************************************)
C1_AlivePositionsNoRepeats ==
    call.op = "alive_positions" => NoRepeats(ret)

(***************************************************************************)
(* C2.  On a World of distinct in-range cells next_generation() returns    *)
(* exactly the cells the rules of Life keep or create, each once; on the   *)
(* 5x5 World {(1,1),(1,2),(2,1)} that is {(1,1),(1,2),(2,1),(2,2)}.        *)
(***************************************************************************)
C2_NextGenerationIsLifeRule ==
    (call.op = "next_generation" /\ Canonical(call.world)) =>
        /\ Cells(ret.alive) = LifeRule(call.world)
        /\ NoRepeats(ret.alive)
        /\ ret.width = call.world.width
        /\ ret.height = call.world.height
        /\ call.world = TestWorld =>
               ret.alive = SetToBag({Position(1, 1), Position(1, 2),
                                     Position(2, 1), Position(2, 2)})

\* next_generation() ran on a World where a cell survives, one dies and one is born.
C2_Witness ==
    /\ call.op = "next_generation"
    /\ Canonical(call.world)
    /\ \E c \in Cells(call.world.alive) : c \in Cells(ret.alive)
    /\ \E c \in Cells(call.world.alive) : c \notin Cells(ret.alive)
    /\ \E c \in Cells(ret.alive) : c \notin Cells(call.world.alive)

C4_TickIsNextGeneration ==
    call.op = "tick" =>
        /\ alive = next_generation(call.world).alive
        /\ width = call.world.width
        /\ height = call.world.height
        /\ self = Generations(initial, ticks)

\* On a grid of width and height 4 or more, two ticks ran and each changed
\* the live cells.
C4_Witness ==
    /\ call.op = "tick"
    /\ ticks = 2
    /\ width >= 4
    /\ height >= 4
    /\ alive # call.world.alive
    /\ call.world.alive # initial.alive
    /\ alive # EmptyBag

(***************************************************************************)
(* C5.  glider_pattern panics exactly when width < 5 or height < 5 and     *)
(* pulsar_pattern exactly when width < 15 or height < 15; otherwise the    *)
(* World has the requested dimensions and the whole seed, 5 and 24 cells.  *)
(***************************************************************************)
C5_PatternGuards ==
    /\ call.op = "glider_pattern" =>
           /\ status = "panicked" <=> (call.width < 5 \/ call.height < 5)
           /\ status = "panicked" => self = NoWorld
           /\ status # "panicked" =>
                  /\ status = "ok"
                  /\ width = call.width
                  /\ height = call.height
                  /\ alive = glider
                  /\ BagCardinality(alive) = 5
    /\ call.op = "pulsar_pattern" =>
           /\ status = "panicked" <=> (call.width < 15 \/ call.height < 15)
           /\ status = "panicked" => self = NoWorld
           /\ status # "panicked" =>
                  /\ status = "ok"
                  /\ width = call.width
                  /\ height = call.height
                  /\ alive = pulsar
                  /\ BagCardinality(alive) = 24

\* glider_pattern(4, 5) panicked: one axis alone is too small.
C5_Witness ==
    /\ call.op = "glider_pattern"
    /\ call.width = 4
    /\ call.height = 5
    /\ status = "panicked"

(***************************************************************************)
(* C6.  Every World a pattern constructor returns has all its live cells   *)
(* inside [1,width]x[1,height].  The pulsar's cells reach x = 17, so this  *)
(* fails on the grids of width 15 and 16 that the guard accepts.           *)
(***************************************************************************)
C6_SeedInRange ==
    (call.op \in {"glider_pattern", "pulsar_pattern"} /\ status = "ok") =>
        \A c \in Cells(alive) : InRange(self, c)

(***************************************************************************)
(* C7.  On a grid of width and height at least 4, a 2x2 block that is the  *)
(* only live cells, wherever it lies, is still the live set after any      *)
(* number of ticks.                                                        *)
(***************************************************************************)
C7_BlockIsStill ==
    (status = "ok" /\ initial.width >= 4 /\ initial.height >= 4 /\ IsBlock(initial)) =>
        alive = initial.alive

\* Ticks ran on a block that straddles the wrap-around edge in both axes.
C7_Witness ==
    /\ status = "ok"
    /\ initial.width >= 4
    /\ initial.height >= 4
    /\ IsBlock(initial)
    /\ ticks >= 2
    /\ {Position(1, 1), Position(width, height)} \subseteq Cells(initial.alive)

C10_RangeClosed ==
    /\ call.op = "tick" =>
           \A c \in Cells(alive) :
               \/ InRange(self, c)
               \/ /\ BagIn(c, call.world.alive)
                  /\ BagIn(c, initial.alive)
    /\ (status = "ok" /\ \A c \in Cells(initial.alive) : InRange(initial, c)) =>
           \A c \in Cells(alive) : InRange(self, c)

\* On a grid of width and height 3 or more, a tick kept an out-of-range cell
\* of the initial Vec and added a cell.
C10_Witness ==
    /\ call.op = "tick"
    /\ width >= 3
    /\ height >= 3
    /\ \E c \in Cells(alive) : ~InRange(self, c)
    /\ \E c \in Cells(alive) : ~BagIn(c, call.world.alive)

=============================================================================
